---- MODULE Spec2Model ----
(***************************************************************************)
(* Model of the ImageProcessor component (src/unnamed/part_000): the       *)
(* single image slot, the upload / process / download / delete handlers,   *)
(* the countdown timer, the object URLs the handlers create and revoke,    *)
(* and the effect cleanup React runs whenever the image value changes.     *)
(*                                                                         *)
(* Execution model.  The component runs on the browser's event loop: a     *)
(* handler runs to its first await without interleaving, and the           *)
(* continuation after an await runs as one task together with the render   *)
(* and the effect cleanup its state updates cause.  Each such task is one  *)
(* action.  The two external capabilities (imageCompression and            *)
(* removeBackground) settle in any order, each either resolving or         *)
(* rejecting.                                                              *)
(***************************************************************************)
EXTENDS Integers, Sequences, FiniteSets, TLC

----------------------------------------------------------------------------
(* Bounds of the model *)

\* accepted uploads (imageCompression calls) in one behaviour
MaxUploads == 2

\* removeBackground calls started in one behaviour
MaxCalls == 3

\* a segmentation call reports progress fractions k / ProgressSteps
ProgressSteps == 2

\* removeBackground calls started in one behaviour of UploadSpec
UploadCalls == 1

\* the longest session name of NameSpec
MaxNameLen == 6

----------------------------------------------------------------------------
(* Program constants *)

\* SETTINGS.upload.maxSize
maxSize == 10 * 1024 * 1024

\* SETTINGS.upload.types
types == {"image/jpeg", "image/png", "image/webp"}

\* SETTINGS.processing.format
format == "image/png"

\* the countdown budget: setTimeLeft(20)
Budget == 20

----------------------------------------------------------------------------
(* Values *)

\* File names are sequences of characters.
Names == { <<"a", ".", "j", "p", "g">>, <<"b", ".", "t", ".", "p", "n", "g">> }

\* MIME types a candidate file may carry: the allowed ones and two others.
FileTypes == types \cup {"image/gif", ""}

\* Candidate sizes: 2 MiB, and the three sizes around the ceiling.
FileSizes == {2 * 1024 * 1024, maxSize - 1, maxSize, maxSize + 1}

\* Every file a user can pick or drop.
Files == [name : Names, type : FileTypes, size : FileSizes]

\* One file per outcome of the upload validation: two acceptable files of
\* different names (one of them at the ceiling), one of a type that is not
\* allowed, one above the ceiling.
SomeFiles ==
  { [name |-> <<"a", ".", "j", "p", "g">>, type |-> "image/jpeg",
     size |-> 2 * 1024 * 1024],
    [name |-> <<"b", ".", "t", ".", "p", "n", "g">>, type |-> "image/png",
     size |-> maxSize],
    [name |-> <<"a", ".", "j", "p", "g">>, type |-> "image/gif",
     size |-> 2 * 1024 * 1024],
    [name |-> <<"b", ".", "t", ".", "p", "n", "g">>, type |-> "image/webp",
     size |-> maxSize + 1] }

\* event.target.files?.[0] of an event whose target carries no files
NoFile == [name |-> <<>>, type |-> "undefined", size |-> 0]

\* null for an object URL
NoUrl == [kind |-> "null", of |-> 0]

\* URL.createObjectURL(compressedFile) of upload u: a fresh URL per call
OriginalUrlOf(u) == [kind |-> "original", of |-> u]

\* URL.createObjectURL(processedBlob) of segmentation call c
ProcessedUrlOf(c) == [kind |-> "processed", of |-> c]

\* null for image.processed
NoBlob == [call |-> 0, input |-> 0, type |-> ""]

\* new Blob([result], {type: format}): the result of call c on the bytes of
\* upload u
BlobOf(c, u) == [call |-> c, input |-> u, type |-> format]

\* image = null.  The compressed file of upload u >= 1 is written u; 0 is null.
NoImage ==
  [original |-> 0, originalUrl |-> NoUrl, processed |-> NoBlob,
   processedUrl |-> NoUrl, name |-> <<>>, status |-> "null"]

\* timerRef.current = null; the interval of call c is written c
NoTimer == 0

----------------------------------------------------------------------------
VARIABLES
  image,        \* useState<ProcessedImage | null>
  isProcessing, \* useState(false)
  progress,     \* useState(0)
  isDragging,   \* useState(false)
  timeLeft,     \* useState(20)
  timerRef,     \* useRef: the interval the handlers can clear
  timers,       \* the intervals the browser still fires
  compressions, \* imageCompression calls in flight
  calls,        \* removeBackground calls in flight
  live,         \* object URLs created and not revoked
  nextUpload,   \* number of the next accepted upload
  nextCall,     \* number of the next removeBackground call
  last          \* the handler that ran last and the toast it showed

vars ==
  <<image, isProcessing, progress, isDragging, timeLeft, timerRef, timers,
    compressions, calls, live, nextUpload, nextCall, last>>

Init ==
  /\ image = NoImage
  /\ isProcessing = FALSE
  /\ progress = 0
  /\ isDragging = FALSE
  /\ timeLeft = Budget
  /\ timerRef = NoTimer
  /\ timers = {}
  /\ compressions = {}
  /\ calls = {}
  /\ live = {}
  /\ nextUpload = 1
  /\ nextCall = 1
  /\ last = [op |-> "mount", toast |-> "none"]

----------------------------------------------------------------------------
(* The effect cleanup and the render that follows a handler *)

\* a cleanup that clears the timer and the counters but revokes no URL
cleanupRevokesNothing(img) == {}

\* cleanup, lines 62-69: the URLs the cleanup closed over image img revokes
cleanup(img) ==
  IF img = NoImage THEN {} ELSE {img.originalUrl, img.processedUrl} \ {NoUrl}

\* The render after a task.  img, proc, prog, tl, tref, tmrs and lv are the
\* values the task's own statements leave; changed says that setImage was
\* given a new object.  useEffect(() => cleanup, [cleanup]) with cleanup
\* memoised on [image]: when the image object changes, the cleanup of the
\* previous render runs, closed over the previous image (lines 61-81).
Render(img, changed, proc, prog, tl, tref, tmrs, lv) ==
  /\ image' = img
  /\ IF changed
     THEN /\ live' = lv \ cleanup(image)
          /\ timers' = tmrs \ {tref}
          /\ timerRef' = NoTimer
          /\ progress' = 0
          /\ timeLeft' = 0
          /\ isProcessing' = FALSE
     ELSE /\ live' = lv
          /\ timers' = tmrs
          /\ timerRef' = tref
          /\ progress' = prog
          /\ timeLeft' = tl
          /\ isProcessing' = proc

\* what a handler records about itself
Did(op, file, call, input, toast) ==
  [op |-> op, file |-> file, call |-> call, input |-> input, toast |-> toast]

----------------------------------------------------------------------------
(* Upload: handleFileChange, lines 83-130 *)

\* line 84: event.target.files?.[0].  The target of a change event is the
\* file input; the target of a drop event is an element of the drop zone,
\* which has no files property (the dropped files are in dataTransfer).
TargetFile(ev) == IF ev.kind = "change" THEN ev.file ELSE NoFile

\* the two validations in the other order: the size first
ValidateSizeFirst(file) ==
  IF file.size > maxSize THEN "TooLarge"
  ELSE IF file.type \notin types THEN "InvalidType"
  ELSE "ok"

\* lines 89-96: the two validations, in the order of the code
Validate(file) ==
  IF file.type \notin types THEN "InvalidType"
  ELSE IF file.size > maxSize THEN "TooLarge"
  ELSE "ok"

\* the session setImage is given at lines 113-120
NewImage(u, file) ==
  [original |-> u, originalUrl |-> OriginalUrlOf(u), processed |-> NoBlob,
   processedUrl |-> NoUrl, name |-> file.name, status |-> "pending"]

\* handleFileChange up to its await (lines 84-105); op names the handler
\* that was entered
handleFileChange(ev, op) ==
  LET file == TargetFile(ev) IN
  /\ UNCHANGED <<image, isProcessing, progress, timeLeft, timerRef, timers,
                 calls, live, nextCall>>
  /\ IF file = NoFile
     THEN /\ UNCHANGED <<compressions, nextUpload>>
          /\ last' = Did(op, ev.file, 0, 0, "none")
     ELSE IF Validate(file) # "ok"
     THEN /\ UNCHANGED <<compressions, nextUpload>>
          /\ last' = Did(op, ev.file, 0, 0, Validate(file))
     ELSE /\ nextUpload <= MaxUploads
          /\ compressions' = compressions \cup {[id |-> nextUpload, file |-> file]}
          /\ nextUpload' = nextUpload + 1
          /\ last' = Did(op, ev.file, 0, nextUpload, "none")

\* the file inputs are rendered only while there is no image (lines 334,
\* 366-372 and 438, 472-478)
InputRendered == image = NoImage

\* the user picks file f in the file picker
FileChange(f) ==
  /\ InputRendered
  /\ handleFileChange([kind |-> "change", file |-> f], "handleFileChange")
  /\ UNCHANGED isDragging

\* imageCompression resolves (lines 105-120)
Compressed(c) ==
  /\ c \in compressions
  /\ compressions' = compressions \ {c}
  /\ Render(NewImage(c.id, c.file), TRUE, isProcessing, progress, timeLeft,
            timerRef, timers, live \cup {OriginalUrlOf(c.id)})
  /\ last' = Did("compressed", c.file, 0, c.id, "none")
  /\ UNCHANGED <<isDragging, calls, nextUpload, nextCall>>

\* a catch block that also clears the session
CompressionFailedClearsImage(c) ==
  /\ c \in compressions
  /\ compressions' = compressions \ {c}
  /\ Render(NoImage, image # NoImage, isProcessing, progress, timeLeft,
            timerRef, timers, live)
  /\ last' = Did("compressionFailed", c.file, 0, c.id, "CompressionFailure")
  /\ UNCHANGED <<isDragging, calls, nextUpload, nextCall>>

\* imageCompression rejects (lines 122-129)
CompressionFailed(c) ==
  /\ c \in compressions
  /\ compressions' = compressions \ {c}
  /\ last' = Did("compressionFailed", c.file, 0, c.id, "CompressionFailure")
  /\ UNCHANGED <<image, isProcessing, progress, isDragging, timeLeft, timerRef,
                 timers, calls, live, nextUpload, nextCall>>

----------------------------------------------------------------------------
(* Processing: handleProcess and processImage, lines 132-230 *)

\* line 183: the request goes on
ProcessAccepted == image.original # 0 /\ ~isProcessing

\* handleProcess up to the await of removeBackground (lines 183-191 and
\* 133-162); at most n calls are started in one behaviour
Process(n) ==
  /\ UNCHANGED <<image, isDragging, compressions, live, nextUpload>>
  /\ IF ~ProcessAccepted
     THEN /\ UNCHANGED <<isProcessing, progress, timeLeft, timerRef, timers,
                         calls, nextCall>>
          /\ last' = Did("handleProcess", NoFile, 0, 0, "none")
     ELSE /\ nextCall <= n
          /\ isProcessing' = TRUE
          /\ progress' = 0
          /\ timeLeft' = Budget
          /\ timers' = timers \cup {nextCall}
          /\ timerRef' = nextCall
          /\ calls' = calls \cup {[id |-> nextCall, input |-> image.original, p |-> 0]}
          /\ nextCall' = nextCall + 1
          /\ last' = Did("handleProcess", NoFile, nextCall, image.original, "none")

\* Math.floor(p * 100) for the fraction p = k / ProgressSteps (line 154)
progressValue(k) == (k * 100) \div ProgressSteps

\* the progress callback of call c (lines 153-157); a call reports
\* non-decreasing fractions
Progress(c, k) ==
  /\ c \in calls
  /\ k \in c.p .. ProgressSteps
  /\ progress' = progressValue(k)
  /\ calls' = (calls \ {c}) \cup {[c EXCEPT !.p = k]}
  /\ last' = Did("progress", NoFile, c.id, c.input, "none")
  /\ UNCHANGED <<image, isProcessing, isDragging, timeLeft, timerRef, timers,
                 compressions, live, nextUpload, nextCall>>

\* the interval callback of timer t (lines 138-146)
Tick(t) ==
  /\ t \in timers
  /\ IF timeLeft <= 1
     THEN timeLeft' = 0 /\ timers' = timers \ {t}
     ELSE timeLeft' = timeLeft - 1 /\ UNCHANGED timers
  /\ last' = Did("tick", NoFile, t, 0, "none")
  /\ UNCHANGED <<image, isProcessing, progress, isDragging, timerRef,
                 compressions, calls, live, nextUpload, nextCall>>

\* the updater of lines 197-207 setting the status alone
CompletedImageStatusOnly(prev, c) ==
  IF prev = NoImage THEN NoImage ELSE [prev EXCEPT !.status = "completed"]

\* the updater of lines 197-207 applied to prev, for call c
CompletedImage(prev, c) ==
  IF prev = NoImage THEN NoImage
  ELSE [prev EXCEPT !.processed = BlobOf(c.id, c.input),
                    !.processedUrl = ProcessedUrlOf(c.id),
                    !.status = "completed"]

\* the updater of line 215 without the spread of prev
FailedImageNoSpread(prev) ==
  IF prev = NoImage THEN NoImage ELSE [NoImage EXCEPT !.status = "failed"]

\* the updater of line 215 applied to prev
FailedImage(prev) ==
  IF prev = NoImage THEN NoImage ELSE [prev EXCEPT !.status = "failed"]

\* removeBackground of call c resolves: lines 164-170, 192-212, 221-229
Resolved(c) ==
  /\ c \in calls
  /\ calls' = calls \ {c}
  /\ Render(CompletedImage(image, c), image # NoImage, FALSE, 0, 0, NoTimer,
            timers \ {c.id},
            (live \cup {ProcessedUrlOf(c.id)}) \ {image.processedUrl})
  /\ last' = Did("resolved", NoFile, c.id, c.input, "Success")
  /\ UNCHANGED <<isDragging, compressions, nextUpload, nextCall>>

\* a rejection handled without any clearInterval
RejectedLeavesTimers(c) ==
  /\ c \in calls
  /\ calls' = calls \ {c}
  /\ Render(FailedImage(image), image # NoImage, FALSE, 0, 0, NoTimer,
            timers, live)
  /\ last' = Did("rejected", NoFile, c.id, c.input, "ProcessingFailure")
  /\ UNCHANGED <<isDragging, compressions, nextUpload, nextCall>>

\* removeBackground of call c rejects: lines 171-179, 213-229
Rejected(c) ==
  /\ c \in calls
  /\ calls' = calls \ {c}
  /\ Render(FailedImage(image), image # NoImage, FALSE, 0, 0, NoTimer,
            (timers \ {c.id}) \ {timerRef}, live)
  /\ last' = Did("rejected", NoFile, c.id, c.input, "ProcessingFailure")
  /\ UNCHANGED <<isDragging, compressions, nextUpload, nextCall>>

----------------------------------------------------------------------------
(* Download, delete and the drop zone: lines 232-317 *)

\* the regular expression /\.[^/.]+$/ matches name from position i: a '.',
\* then one or more characters that are neither '/' nor '.', then the end
MatchesAt(name, i) ==
  /\ name[i] = "."
  /\ i < Len(name)
  /\ \A j \in i + 1 .. Len(name) : name[j] \notin {"/", "."}

\* name.replace(/\.[^.]*/, ''): the pattern without its anchor, which cuts
\* the name at its first '.'
replaceFromFirstDot(name) ==
  IF \E i \in 1 .. Len(name) : name[i] = "."
  THEN LET i == CHOOSE i \in 1 .. Len(name) :
                  name[i] = "." /\ \A j \in 1 .. i - 1 : name[j] # "."
       IN  SubSeq(name, 1, i - 1)
  ELSE name

\* name.replace(/\.[^/.]+$/, '') of line 239: the leftmost match, which runs
\* to the end of the name, is removed
replaceExtension(name) ==
  IF \E i \in 1 .. Len(name) : MatchesAt(name, i)
  THEN LET i == CHOOSE i \in 1 .. Len(name) :
                  MatchesAt(name, i) /\ \A j \in 1 .. i - 1 : ~MatchesAt(name, j)
       IN  SubSeq(name, 1, i - 1)
  ELSE name

\* the template literal of line 239
downloadName(name) ==
  <<"p", "r", "o", "c", "e", "s", "s", "e", "d", "_">>
    \o replaceExtension(name) \o <<".", "p", "n", "g">>

\* URL.createObjectURL(image.processed) of line 237: a fresh URL
DownloadUrlOf(blob) == [kind |-> "download", of |-> blob.call]

\* handleDownload without line 243
liveAfterDownloadNoRevoke(lv, blob) == lv \cup {DownloadUrlOf(blob)}

\* the live URLs once handleDownload has run on blob: the URL of line 237 is
\* revoked at line 243
liveAfterDownload(lv, blob) ==
  (lv \cup {DownloadUrlOf(blob)}) \ {DownloadUrlOf(blob)}

\* handleDownload; the file the browser saves is recorded in last
Download ==
  /\ UNCHANGED <<image, isProcessing, progress, isDragging, timeLeft, timerRef,
                 timers, compressions, calls, nextUpload, nextCall>>
  /\ IF image.processed = NoBlob \/ image.name = <<>>
     THEN /\ UNCHANGED live
          /\ last' = Did("handleDownload", NoFile, 0, 0, "none")
     ELSE /\ live' = liveAfterDownload(live, image.processed)
          /\ last' = Did("handleDownload",
                         [name |-> downloadName(image.name),
                          type |-> image.processed.type, size |-> 0],
                         image.processed.call, image.original, "none")

\* handleDelete
Delete ==
  /\ UNCHANGED <<compressions, calls, nextUpload, nextCall>>
  /\ IF image = NoImage
     THEN /\ UNCHANGED <<image, isProcessing, progress, isDragging, timeLeft,
                         timerRef, timers, live>>
          /\ last' = Did("handleDelete", NoFile, 0, 0, "none")
     ELSE /\ Render(NoImage, TRUE, FALSE, 0, 0, NoTimer, timers \ {timerRef},
                    live \ {image.originalUrl, image.processedUrl})
          /\ isDragging' = FALSE
          /\ last' = Did("handleDelete", NoFile, 0, image.original, "Deleted")

DragOver ==
  /\ isDragging' = TRUE
  /\ last' = Did("handleDragOver", NoFile, 0, 0, "none")
  /\ UNCHANGED <<image, isProcessing, progress, timeLeft, timerRef, timers,
                 compressions, calls, live, nextUpload, nextCall>>

DragLeave ==
  /\ isDragging' = FALSE
  /\ last' = Did("handleDragLeave", NoFile, 0, 0, "none")
  /\ UNCHANGED <<image, isProcessing, progress, timeLeft, timerRef, timers,
                 compressions, calls, live, nextUpload, nextCall>>

\* the user drops file f on a drop zone
Drop(f) ==
  /\ isDragging' = FALSE
  /\ handleFileChange([kind |-> "drop", file |-> f], "handleDrop")

----------------------------------------------------------------------------
\* one task of the event loop: the user's files are drawn from F, and at
\* most n segmentation calls are started
Step(F, n) ==
  \/ \E f \in F : FileChange(f)
  \/ \E c \in compressions : Compressed(c)
  \/ \E c \in compressions : CompressionFailed(c)
  \/ Process(n)
  \/ \E c \in calls, k \in 0 .. ProgressSteps : Progress(c, k)
  \/ \E t \in timers : Tick(t)
  \/ \E c \in calls : Resolved(c)
  \/ \E c \in calls : Rejected(c)
  \/ Download
  \/ Delete
  \/ DragOver
  \/ DragLeave
  \/ \E f \in F : Drop(f)

\* The component with a file of each validation outcome.
Next == Step(SomeFiles, MaxCalls)

Spec == Init /\ [][Next]_vars

\* a segmentation call in flight settles
Settle == \E c \in calls : Resolved(c) \/ Rejected(c)

\* The component when every segmentation call eventually resolves or
\* rejects: removeBackground returns a promise that settles.
LiveSpec == Spec /\ WF_vars(Settle)

\* The component with every candidate file, and at most UploadCalls
\* segmentation calls.
UploadNext == Step(Files, UploadCalls)

UploadSpec == Init /\ [][UploadNext]_vars

\* The characters of the session names of NameSpec: a letter and the dot.
\* file.name is the leaf name of a file, so it holds no '/'.
Chars == {"a", "."}

\* the names of at most MaxNameLen characters a file can have: not empty,
\* and not made of dots alone
AllNames ==
  {n \in UNION {[1 .. k -> Chars] : k \in 1 .. MaxNameLen} :
     \E i \in 1 .. Len(n) : n[i] # "."}

\* The component after a file named n was uploaded and processed once.
NameInit ==
  \E n \in AllNames :
    /\ image = CompletedImage(
                 NewImage(1, [name |-> n, type |-> "image/png",
                              size |-> 2 * 1024 * 1024]),
                 [id |-> 1, input |-> 1, p |-> 0])
    /\ isProcessing = FALSE
    /\ progress = 0
    /\ isDragging = FALSE
    /\ timeLeft = 0
    /\ timerRef = NoTimer
    /\ timers = {}
    /\ compressions = {}
    /\ calls = {}
    /\ live = {ProcessedUrlOf(1)}
    /\ nextUpload = 2
    /\ nextCall = 2
    /\ last = Did("resolved", NoFile, 1, 1, "Success")

\* downloads of a processed session, for every session name
NameNext == Download

NameSpec == NameInit /\ [][NameNext]_vars

----------------------------------------------------------------------------
(* Properties *)

\* the URLs the image holds
held(img) == {img.originalUrl, img.processedUrl} \ {NoUrl}

\* no external call is in flight
Quiescent == compressions = {} /\ calls = {}

\* C1: whenever a session exists, its processedUrl is non-null if and only
\* if its status is completed.
C1_ProcessedUrlIffCompleted ==
  image # NoImage =>
    ((image.processedUrl # NoUrl) <=> (image.status = "completed"))

\* C2: in every quiescent state, every object URL that was created and is
\* not held by the current session has been revoked.
C2_NoLeakedUrl == Quiescent => live \subseteq held(image)

\* C3: at most one segmentation call started for a session is in flight.
C3_OneCallPerSession ==
  \A u \in 1 .. MaxUploads + 1 :
    Cardinality({c \in calls : c.input = u}) <= 1

\* C4: when a segmentation call settles whose input is not the original of
\* the current session (the session was deleted or replaced), the image
\* slot is left as it was.
C4_StaleResultDiscarded ==
  [][(last'.op \in {"resolved", "rejected"} /\ last'.input # image.original)
       => image' = image]_vars

\* C5: while no session exists and no upload is pending (the states between
\* a Delete and the next accepted upload), no object URL is live.
C5_NoLiveUrlAfterDelete ==
  (image = NoImage /\ compressions = {}) => live = {}

\* the status changes the data model allows
AllowedStatusChange ==
  { <<"pending", "processing">>, <<"processing", "completed">>,
    <<"processing", "failed">>, <<"completed", "processing">>,
    <<"failed", "processing">> }

\* C6: while a segmentation call runs for the session its status is
\* processing, and the status of a session changes only along pending ->
\* processing -> completed or failed, and from completed or failed to
\* processing.
C6_StatusTransitions ==
  [][/\ (\E c \in calls : c.input = image.original)
          => image.status = "processing"
     /\ (/\ image # NoImage
         /\ image'.original = image.original
         /\ image'.status # image.status)
          => <<image.status, image'.status>> \in AllowedStatusChange]_vars

\* C7: a file picked with a MIME type that is not allowed is rejected with
\* InvalidType whatever its size: no compression is started, no object URL
\* is created and the image slot is left as it was.
C7_InvalidTypeRejected ==
  [][(last'.op = "handleFileChange" /\ last'.file.type \notin types)
       => /\ last'.toast = "InvalidType"
          /\ compressions' = compressions
          /\ nextUpload' = nextUpload
          /\ live' = live
          /\ image' = image]_vars

\* a file of a type that is not allowed, above the size ceiling, was picked
\* while a compression was in flight, and was rejected with InvalidType
C7_Witness ==
  /\ last.op = "handleFileChange"
  /\ last.file.type \notin types
  /\ last.file.size > maxSize
  /\ last.toast = "InvalidType"
  /\ compressions # {}

\* C8: a file picked with an allowed type and a size of at least 10 MiB is
\* rejected with TooLarge, and no session is created.
C8_TooLargeRejected ==
  [][(/\ last'.op = "handleFileChange"
      /\ last'.file.type \in types
      /\ last'.file.size >= 10 * 1024 * 1024)
       => /\ last'.toast = "TooLarge"
          /\ compressions' = compressions
          /\ image' = image]_vars

\* C9: when the compression of an upload resolves, the session is the new
\* one: status pending, no processed bytes, no processed URL, the name of
\* the uploaded file; and the only live URL of an original is the session's
\* originalUrl.
C9_SuccessfulUpload ==
  [][last'.op = "compressed"
       => /\ image' # NoImage
          /\ image'.original = last'.input
          /\ image'.status = "pending"
          /\ image'.processed = NoBlob
          /\ image'.processedUrl = NoUrl
          /\ image'.name = last'.file.name
          /\ {u \in live' : u.kind = "original"} = {image'.originalUrl}]_vars

\* the second of two overlapping uploads has resolved, after the first
C9_Witness ==
  /\ last.op = "compressed"
  /\ last.input = 2
  /\ nextUpload = 3
  /\ compressions = {}
  /\ image.status = "pending"
  /\ image.name = last.file.name
  /\ live = {image.originalUrl}

\* C10: when the segmentation call of the current session rejects, the
\* status becomes failed, progress and timeLeft are 0, isProcessing is
\* false, the original, its URL and the name are unchanged, and a Process
\* request is accepted.
C10_ProcessingFailure ==
  [][(/\ last'.op = "rejected"
      /\ image # NoImage
      /\ last'.input = image.original)
       => /\ image'.status = "failed"
          /\ progress' = 0
          /\ timeLeft' = 0
          /\ ~isProcessing'
          /\ image'.original = image.original
          /\ image'.originalUrl = image.originalUrl
          /\ image'.name = image.name
          /\ ProcessAccepted']_vars

\* the call of the current session has rejected
C10_Witness ==
  /\ last.op = "rejected"
  /\ image # NoImage
  /\ last.input = image.original
  /\ image.status = "failed"
  /\ ~isProcessing

\* C11: when the segmentation call of the current session resolves, the
\* status becomes completed, the processed bytes are the call's result, of
\* type image/png, processedUrl is a URL created in this step and live, the
\* previous processedUrl is revoked, and the original, its URL and the name
\* are unchanged.
C11_ProcessingSuccess ==
  [][(/\ last'.op = "resolved"
      /\ image # NoImage
      /\ last'.input = image.original)
       => /\ image'.status = "completed"
          /\ image'.processed = BlobOf(last'.call, last'.input)
          /\ image'.processed.type = "image/png"
          /\ image'.processedUrl # NoUrl
          /\ image'.processedUrl # image.processedUrl
          /\ image'.processedUrl \notin live
          /\ image'.processedUrl \in live'
          /\ image.processedUrl \notin live'
          /\ image'.original = image.original
          /\ image'.originalUrl = image.originalUrl
          /\ image'.name = image.name]_vars

\* a re-processing call of the current session has resolved: the session
\* holds the URL of the second call
C11_Witness ==
  /\ last.op = "resolved"
  /\ last.call = 2
  /\ last.input = image.original
  /\ image.status = "completed"
  /\ image.processed = BlobOf(2, image.original)
  /\ image.processedUrl = ProcessedUrlOf(2)
  /\ ProcessedUrlOf(1) \notin live
  /\ nextUpload = 2

\* C12: Delete with a session leaves no session, isProcessing false,
\* progress 0, timeLeft 0, no interval scheduled, isDragging false, and
\* shows the success toast; Delete without a session changes nothing.
C12_DeleteClears ==
  [][last'.op = "handleDelete"
       => IF image # NoImage
          THEN /\ image' = NoImage
               /\ ~isProcessing'
               /\ progress' = 0
               /\ timeLeft' = 0
               /\ timers' = {}
               /\ timerRef' = NoTimer
               /\ ~isDragging'
               /\ last'.toast = "Deleted"
          ELSE UNCHANGED <<image, isProcessing, progress, isDragging, timeLeft,
                           timerRef, timers, compressions, calls, live>>]_vars

\* C13: Download changes neither the session nor isProcessing, progress or
\* timeLeft; the URL it creates for the save is revoked when it returns;
\* without processed bytes nothing is saved.
C13_DownloadLeavesState ==
  [][last'.op = "handleDownload"
       => /\ UNCHANGED <<image, isProcessing, progress, isDragging, timeLeft,
                         timerRef, timers, compressions, calls>>
          /\ live' = live
          /\ \A u \in live' : u.kind # "download"
          /\ (image.processed = NoBlob) <=> (last'.file = NoFile)]_vars

\* the processed bytes of a session were saved
C13_Witness ==
  /\ last.op = "handleDownload"
  /\ last.file # NoFile
  /\ image.processed # NoBlob
  /\ last.call = image.processed.call

\* the name without its last '.' and everything after it
StemOfClaim(n) ==
  IF \E i \in 1 .. Len(n) : n[i] = "."
  THEN LET i == CHOOSE i \in 1 .. Len(n) :
                  n[i] = "." /\ \A j \in i + 1 .. Len(n) : n[j] # "."
       IN  SubSeq(n, 1, i - 1)
  ELSE n

\* the name has a '.', and its last '.' is followed by at least one
\* character
HasExtension(n) ==
  /\ \E i \in 1 .. Len(n) : n[i] = "."
  /\ n[Len(n)] # "."

\* C16 as stated: the saved name is 'processed_', the name without its last
\* '.' and everything after it, and '.png'.
C16_DownloadNameAsStated ==
  [][(last'.op = "handleDownload" /\ last'.file # NoFile)
       => last'.file.name =
            <<"p", "r", "o", "c", "e", "s", "s", "e", "d", "_">>
              \o StemOfClaim(image.name) \o <<".", "p", "n", "g">>]_vars

\* C16 amended: the saved name is 'processed_', the stem and '.png', where
\* the stem is the name without its last '.' and the characters after it
\* when at least one character follows that '.', and the whole name
\* otherwise (no '.', or a name that ends in '.').
C16_DownloadName ==
  [][(last'.op = "handleDownload" /\ last'.file # NoFile)
       => last'.file.name =
            <<"p", "r", "o", "c", "e", "s", "s", "e", "d", "_">>
              \o (IF HasExtension(image.name)
                  THEN StemOfClaim(image.name) ELSE image.name)
              \o <<".", "p", "n", "g">>]_vars

\* a name with two dots was saved with its last extension alone removed
C16_Witness ==
  /\ last.op = "handleDownload"
  /\ image.name = <<"a", ".", "a", ".">> \o <<"a">>
  /\ last.file.name =
       <<"p", "r", "o", "c", "e", "s", "s", "e", "d", "_", "a", ".", "a",
         ".", "p", "n", "g">>

\* C14: dropping a file has the outcome of picking it: the same InvalidType
\* and TooLarge rejections, for an acceptable file a compression of that
\* file is started, and isDragging is false afterwards.
C14_DropLikePick ==
  [][last'.op = "handleDrop"
       => /\ ~isDragging'
          /\ IF last'.file.type \notin types
             THEN last'.toast = "InvalidType" /\ compressions' = compressions
             ELSE IF last'.file.size > maxSize
             THEN last'.toast = "TooLarge" /\ compressions' = compressions
             ELSE \E c \in compressions' \ compressions :
                    c.file = last'.file]_vars

\* C17: when the compression of an upload rejects, the error is shown, the
\* session, the live URLs and the rest of the state are as they were, no
\* compression is started in its place; and every pick of an acceptable
\* file, also after a failure, starts a compression of that file.
C17_CompressionFailure ==
  [][/\ last'.op = "compressionFailed"
          => /\ last'.toast = "CompressionFailure"
             /\ UNCHANGED <<image, live, isProcessing, progress, isDragging,
                            timeLeft, timerRef, timers, calls, nextUpload>>
             /\ compressions' \subseteq compressions
     /\ (/\ last'.op = "handleFileChange"
         /\ last'.file.type \in types
         /\ last'.file.size <= maxSize)
          => \E c \in compressions' \ compressions :
               c.file = last'.file]_vars

\* the compression of a second upload has rejected while the session of the
\* first exists
C17_Witness ==
  /\ last.op = "compressionFailed"
  /\ last.toast = "CompressionFailure"
  /\ last.input = 2
  /\ image.original = 1
  /\ image.originalUrl \in live

\* C18: every URL the session holds is live.
C18_HeldUrlsLive == image # NoImage => held(image) \subseteq live

\* C19: while the segmentation call of the current session stays in flight,
\* progress is an integer in 0..100 and does not decrease.
C19_ProgressMonotone ==
  [][(/\ image # NoImage
      /\ image' = image
      /\ isProcessing
      /\ \E c \in calls :
           c.input = image.original /\ \E d \in calls' : d.id = c.id)
       => progress' \in 0 .. 100 /\ progress' >= progress]_vars

\* C15: an accepted Process sets timeLeft to 20; a tick lowers timeLeft by 1,
\* not below 0, the ticking interval is cleared when timeLeft reaches 0, and
\* a tick neither ends nor fails the run; when a call resolves or rejects
\* no interval remains scheduled and timeLeft is 0, and a tick outside a
\* run leaves timeLeft as it is.
C15_Countdown ==
  [][/\ (last'.op = "handleProcess" /\ last'.call # 0) => timeLeft' = Budget
     /\ last'.op = "tick"
          => /\ timeLeft' = (IF timeLeft > 0 THEN timeLeft - 1 ELSE 0)
             /\ timeLeft' = 0 => last'.call \notin timers'
             /\ UNCHANGED <<image, isProcessing, calls>>
     /\ last'.op \in {"resolved", "rejected"}
          => timers' = {} /\ timeLeft' = 0
     /\ (last'.op = "tick" /\ ~isProcessing) => timeLeft' = timeLeft]_vars

\* no run is going on: the state a run ends in
Idle ==
  /\ ~isProcessing
  /\ progress = 0
  /\ timeLeft = 0
  /\ timers = {}
  /\ timerRef = NoTimer
  /\ image # NoImage => ProcessAccepted

====
